---- MODULE Spec2Model ----
(***************************************************************************)
(* A model of muxer.py: the launcher that discovers candidates (local      *)
(* directories from ~/.muxer.rc, host aliases from ~/.ssh/config), lets    *)
(* the user choose one, and reconciles a tmux session or window for it.    *)
(*                                                                         *)
(* Python strings are sequences of one-character strings, so that prefix,  *)
(* suffix, substring, strip, split and sort are computed as Python does.   *)
(* None and the empty string are both the empty sequence where the code    *)
(* only tests truthiness; an optional value is a sequence of length 0/1.   *)
(***************************************************************************)
EXTENDS Integers, Sequences, FiniteSets, TLC

VARIABLES
    sessions,    \* the tmux server's session table: a set of session names
    within,      \* WITHIN_TMUX of the running process (truthy or not)
    window,      \* args.window
    query,       \* args.query
    muxerrc,     \* ~/.muxer.rc: <<>> when absent, <<lines>> when present
    sshConfig,   \* ~/.ssh/config as its lines
    sshHosts,    \* what get_ssh_hosts returned
    localDirs,   \* what get_local_directories returned ([ok, val])
    candidates,  \* main's combined candidate list
    chosen,      \* main's chosen: <<>> is None, <<c>> a candidate
    picked,      \* what iterfzf returned, when it was invoked (history)
    uiCalls,     \* number of iterfzf invocations in this run (history)
    printed,     \* lines printed by this run
    muxer,       \* the Muxer object: <<>> before construction, <<obj>> after
    trace,       \* this run's subprocess.run calls, in order (history)
    checks,      \* this run's tmux_has_session calls and results (history)
    history,     \* the finished runs against this tmux server (history)
    sessions0,   \* the session table when this run started (history)
    runs,        \* number of runs started
    pc           \* position of the program

vars == <<sessions, within, window, query, muxerrc, sshConfig, sshHosts,
          localDirs, candidates, chosen, picked, uiCalls, printed, muxer,
          trace, checks, history, sessions0, runs, pc>>

(***************************************************************************)
(* Bounds.                                                                 *)
(***************************************************************************)
MaxRuns == 2        \* launcher invocations against one tmux server
MaxRcLines == 2     \* lines of a rule file
MaxSshLines == 2    \* lines of an SSH config

(***************************************************************************)
(* Characters and Python's str operations.                                 *)
(***************************************************************************)
BS == "\\x08"       \* the backspace character U+0008
NL == "\n"

\* The characters in use, in code-point order (Python compares code points).
Ascii == <<BS, NL, " ", "!", "'", "(", ")", "*", "-", ".", "/",
           "0", "1", "2", "3", "4", ":", ">",
           "A", "C", "E", "H", "I", "N", "O", "S", "U", "W", "_",
           "a", "b", "c", "d", "e", "f", "g", "h", "i", "k", "l", "m", "n",
           "o", "p", "r", "s", "t", "u", "w", "x", "y", "z", "~">>

Ord(c) == CHOOSE i \in 1..Len(Ascii) : Ascii[i] = c

IsSpace(c) == c \in {" ", NL}

StartsWith(s, p) == Len(p) <= Len(s) /\ SubSeq(s, 1, Len(p)) = p

EndsWith(s, p) ==
    Len(p) <= Len(s) /\ SubSeq(s, Len(s) - Len(p) + 1, Len(s)) = p

\* sub in s
Contains(s, sub) ==
    \E i \in 0..(Len(s) - Len(sub)) : SubSeq(s, i + 1, i + Len(sub)) = sub

RECURSIVE LStrip(_)
LStrip(s) == IF s # <<>> /\ IsSpace(Head(s)) THEN LStrip(Tail(s)) ELSE s

RECURSIVE RStrip(_)
RStrip(s) ==
    IF s # <<>> /\ IsSpace(s[Len(s)]) THEN RStrip(SubSeq(s, 1, Len(s) - 1))
    ELSE s

\* s.strip()
Strip(s) == RStrip(LStrip(s))

\* s.split(sep) for a one-character sep: empty fields are kept
RECURSIVE SplitOn(_, _)
SplitOn(s, sep) ==
    IF \A i \in 1..Len(s) : s[i] # sep THEN <<s>>
    ELSE LET k == CHOOSE i \in 1..Len(s) :
                      s[i] = sep /\ \A j \in 1..(i - 1) : s[j] # sep
         IN  <<SubSeq(s, 1, k - 1)>> \o SplitOn(SubSeq(s, k + 1, Len(s)), sep)

\* s.split(): split on runs of whitespace, no empty fields
RECURSIVE Split(_)
Split(s) ==
    LET t == LStrip(s) IN
    IF t = <<>> THEN <<>>
    ELSE IF \A i \in 1..Len(t) : ~IsSpace(t[i]) THEN <<t>>
    ELSE LET k == CHOOSE i \in 1..Len(t) :
                      IsSpace(t[i]) /\ \A j \in 1..(i - 1) : ~IsSpace(t[j])
         IN  <<SubSeq(t, 1, k - 1)>> \o Split(SubSeq(t, k + 1, Len(t)))

\* sep.join(parts)
RECURSIVE Join(_, _)
Join(parts, sep) ==
    IF parts = <<>> THEN <<>>
    ELSE IF Len(parts) = 1 THEN parts[1]
    ELSE parts[1] \o sep \o Join(Tail(parts), sep)

\* a < b on str
StrLess(a, b) ==
    \E k \in 1..Len(b) :
        /\ k <= Len(a) + 1
        /\ SubSeq(a, 1, k - 1) = SubSeq(b, 1, k - 1)
        /\ (k = Len(a) + 1 \/ Ord(a[k]) < Ord(b[k]))

RECURSIVE Insert(_, _)
Insert(x, sortedSeq) ==
    IF sortedSeq = <<>> THEN <<x>>
    ELSE IF StrLess(x, Head(sortedSeq)) THEN <<x>> \o sortedSeq
    ELSE <<Head(sortedSeq)>> \o Insert(x, Tail(sortedSeq))

\* sorted(seq) on a list of str
RECURSIVE Sorted(_)
Sorted(seq) ==
    IF seq = <<>> THEN <<>> ELSE Insert(Head(seq), Sorted(Tail(seq)))

RECURSIVE Flatten(_)
Flatten(seqs) ==
    IF seqs = <<>> THEN <<>> ELSE Head(seqs) \o Flatten(Tail(seqs))

Range(f) == {f[i] : i \in DOMAIN f}

(***************************************************************************)
(* The file system the program reads, and pathlib.                         *)
(* A Path is [abs, parts]: whether it is absolute, and its segments.       *)
(***************************************************************************)
HOME == << <<"h">> >>                                   \* Path.home() = /h
CWD == HOME                                             \* os.getcwd()

Dirs == { << <<"h">> >>,
          << <<"h">>, <<"a", "b">> >>,                  \* /h/ab
          << <<"h">>, <<"a", ".", "b">> >>,             \* /h/a.b
          << <<"h">>, <<".", "g">> >>,                  \* /h/.g
          << <<"h">>, <<"c">> >>,                       \* /h/c
          << <<"h">>, <<"c">>, <<"b">> >>,              \* /h/c/b
          << <<"h">>, <<"c">>, <<".", "y">> >>,         \* /h/c/.y
          << <<"o">> >> }                               \* /o

Files == { << <<"h">>, <<"f">> >>,                      \* /h/f
           << <<"h">>, <<"c">>, <<"f">> >> }            \* /h/c/f

\* Path(text): split on "/", empty and "." segments dropped
ParsePath(s) ==
    [abs   |-> s # <<>> /\ s[1] = "/",
     parts |-> SelectSeq(SplitOn(s, "/"), LAMBDA x : x # <<>> /\ x # <<".">>)]

\* Path.expanduser()
ExpandUser(p) ==
    IF ~p.abs /\ p.parts # <<>> /\ p.parts[1] = <<"~">>
    THEN [abs |-> TRUE, parts |-> HOME \o Tail(p.parts)]
    ELSE p

Resolve(p) == IF p.abs THEN p.parts ELSE CWD \o p.parts

\* Path.is_dir()
IsDir(p) == Resolve(p) \in Dirs

RECURSIVE SortedFromSet(_)
SortedFromSet(S) ==
    IF S = {} THEN <<>>
    ELSE LET m == CHOOSE x \in S : \A y \in S \ {x} : StrLess(x, y)
         IN  <<m>> \o SortedFromSet(S \ {m})

\* Path.glob("*"): the immediate children, files and hidden entries too.
\* The order of os.scandir is not specified; the caller sorts its result.
Glob(p) ==
    LET base  == Resolve(p)
        names == IF base \in Dirs
                 THEN {e[Len(e)] : e \in {x \in Dirs \cup Files :
                           /\ Len(x) = Len(base) + 1
                           /\ SubSeq(x, 1, Len(base)) = base}}
                 ELSE {}
        order == SortedFromSet(names)
    IN  [i \in 1..Len(order) |->
            [abs |-> p.abs, parts |-> Append(p.parts, order[i])]]

\* Path.name
PathName(p) == IF p.parts = <<>> THEN <<>> ELSE p.parts[Len(p.parts)]

\* Path.stem: the name without its last suffix
Stem(p) ==
    LET name == PathName(p)
        dots == {i \in 1..Len(name) : name[i] = "."}
        k    == IF dots = {} THEN 0
                ELSE CHOOSE i \in dots : \A j \in dots : j <= i
    IN  IF 1 < k /\ k < Len(name) THEN SubSeq(name, 1, k - 1) ELSE name

\* whether Path.relative_to(HOME) succeeds
UnderHome(p) ==
    /\ p.abs
    /\ Len(p.parts) >= Len(HOME)
    /\ SubSeq(p.parts, 1, Len(HOME)) = HOME

\* str(Path)
PathStr(p) ==
    IF p.abs THEN <<"/">> \o Join(p.parts, <<"/">>)
    ELSE IF p.parts = <<>> THEN <<".">>
    ELSE Join(p.parts, <<"/">>)

\* str(dir.relative_to(HOME)), for a dir under HOME
relative(dir) ==
    PathStr([abs |-> FALSE,
             parts |-> SubSeq(dir.parts, Len(HOME) + 1, Len(dir.parts))])

\* HOME / text
HomeJoin(text) ==
    LET q == ParsePath(text)
    IN  IF q.abs THEN q ELSE [abs |-> TRUE, parts |-> HOME \o q.parts]

(***************************************************************************)
(* get_local_directories                                                   *)
(***************************************************************************)
DefaultCandidates ==
    << <<"~", "/", "n", "o", "t", "e", "s">>,
       <<"~", "/", "S", "y", "n", "c", "t", "h", "i", "n", "g">>,
       <<"~", "/", "s", "c", "r", "a", "t", "c", "h">>,
       <<"~", "/", "c", "o", "d", "e", "/", "*">> >>

\* the rule lines: the file's lines, or the defaults when it does not exist
RuleLines(rc) == IF rc = <<>> THEN DefaultCandidates ELSE rc[1]

\* the set built by the loop's first `if`
Excludes(lines) ==
    {ExpandUser(ParsePath(Tail(l))) :
        l \in {x \in Range(lines) : StartsWith(x, <<"!">>)}}

\* what one line adds to `directories` (the loop's second if/else, which an
\* exclusion line reaches as well)
LineDirectories(line) ==
    IF EndsWith(line, <<"*">>)
    THEN Glob(ExpandUser(ParsePath(SubSeq(line, 1, Len(line) - 1))))
    ELSE <<ExpandUser(ParsePath(line))>>

Directories(lines) ==
    Flatten([i \in 1..Len(lines) |-> LineDirectories(lines[i])])

\* valid without its exclusion test: a faulty variant, to show that
\* C9_ExclusionWins depends on that test
validNoExclusion(dir, q, excludes) ==
    /\ Contains(Stem(dir), q)
    /\ IsDir(dir)
    /\ ~StartsWith(Stem(dir), <<".">>)

valid(dir, q, excludes) ==
    /\ Contains(Stem(dir), q)
    /\ IsDir(dir)
    /\ ~StartsWith(Stem(dir), <<".">>)
    /\ dir \notin excludes

\* [ok |-> FALSE] is the ValueError of relative_to
get_local_directories(q, rc) ==
    LET lines      == RuleLines(rc)
        excludes   == Excludes(lines)
        valid_dirs == SelectSeq(Directories(lines),
                                LAMBDA d : valid(d, q, excludes))
    IN  IF \E i \in 1..Len(valid_dirs) : ~UnderHome(valid_dirs[i])
        THEN [ok |-> FALSE, val |-> <<>>]
        ELSE [ok |-> TRUE,
              val |-> Sorted([i \in 1..Len(valid_dirs) |->
                                 relative(valid_dirs[i])])]

(***************************************************************************)
(* get_ssh_hosts                                                           *)
(***************************************************************************)
HostKw == <<"H", "o", "s", "t">>
SshMarker == <<"s", "s", "h", ":", " ">>

\* the aliases one line contributes
LineAliases(line) ==
    IF StartsWith(line, HostKw) /\ ~Contains(line, <<"*">>)
    THEN Tail(Split(line))
    ELSE <<>>

get_ssh_hosts(q, lines) ==
    LET all  == Flatten([i \in 1..Len(lines) |-> LineAliases(lines[i])])
        kept == IF q # <<>>
                THEN SelectSeq(all, LAMBDA c : Contains(c, q))
                ELSE all
    IN  Sorted([i \in 1..Len(kept) |-> SshMarker \o kept[i]])

(***************************************************************************)
(* The inputs of the discovery functions.                                  *)
(***************************************************************************)
RECURSIVE SeqsUpTo(_, _)
SeqsUpTo(S, n) ==
    IF n = 0 THEN {<<>>}
    ELSE LET shorter == SeqsUpTo(S, n - 1)
         IN  shorter \cup {Append(t, x) : t \in shorter, x \in S}

RcLinePool ==
    { <<"~", "/", "a", "b">>,                 \* ~/ab     a directory
      <<"~", "/", "a", ".", "b">>,            \* ~/a.b    a directory
      <<"~", "/", ".", "g">>,                 \* ~/.g     a hidden directory
      <<"~", "/", "f">>,                      \* ~/f      a file
      <<"~", "/", "n", "x">>,                 \* ~/nx     does not exist
      <<"/", "o">>,                           \* /o       outside the home tree
      <<"~", "/", "c", "/", "b">>,            \* ~/c/b    a directory
      <<"~", "/", "c", "/", "*">>,            \* ~/c/*    wildcard
      <<"!", "~", "/", "a", "b">>,            \* !~/ab    exclusion
      <<"!", "~", "/", "c", "/", "b">> }      \* !~/c/b   exclusion

RcFiles == {<<>>} \cup {<<lines>> : lines \in SeqsUpTo(RcLinePool, MaxRcLines)}

DirQueries == { <<>>, <<"a">>, <<"b">> }

SshLinePool ==
    { <<"H", "o", "s", "t", " ", "s">>,                           \* Host s
      <<"H", "o", "s", "t", " ", "t", " ", "s", "n">>,            \* Host t sn
      <<"H", "o", "s", "t", " ", "*", ".", "i">>,                 \* Host *.i
      <<"H", "o", "s", "t", " ", "s", " ", "*", ".", "i">>,       \* Host s *.i
      <<" ", " ", "H", "o", "s", "t", "N", "a", "m", "e", " ", "n">>,
      <<"H", "o", "s", "t", "N", "a", "m", "e", " ", "n">>,       \* HostName n
      <<"U", "s", "e", "r", " ", "u">> }                          \* User u

SshFiles == SeqsUpTo(SshLinePool, MaxSshLines)

SshQueries == { <<>>, <<"s">>, <<"n">> }

NoResult == [ok |-> TRUE, val |-> <<>>]

\* everything but the inputs, before anything has run
Fresh ==
    /\ sshHosts = <<>>
    /\ localDirs = NoResult
    /\ candidates = <<>>
    /\ chosen = <<>>
    /\ picked = <<>>
    /\ uiCalls = 0
    /\ printed = <<>>
    /\ muxer = <<>>
    /\ trace = <<>>
    /\ checks = <<>>
    /\ history = <<>>
    /\ sessions0 = sessions
    /\ runs = 0

(***************************************************************************)
(* get_local_directories on its own, over rule files and queries.          *)
(***************************************************************************)
InitDirs ==
    /\ pc = "dirs"
    /\ muxerrc \in RcFiles
    /\ query \in DirQueries
    /\ sshConfig = <<>>
    /\ sessions = {}
    /\ within = FALSE
    /\ window = FALSE
    /\ Fresh

CallLocalDirectories ==
    /\ pc = "dirs"
    /\ localDirs' = get_local_directories(query, muxerrc)
    /\ pc' = "dirs_done"
    /\ UNCHANGED <<sessions, within, window, query, muxerrc, sshConfig,
                   sshHosts, candidates, chosen, picked, uiCalls, printed,
                   muxer, trace, checks, history, sessions0, runs>>

NextDirs == CallLocalDirectories

SpecDirs == InitDirs /\ [][NextDirs]_vars

(***************************************************************************)
(* get_ssh_hosts on its own, over SSH configs and queries.                 *)
(***************************************************************************)
InitSsh ==
    /\ pc = "ssh"
    /\ sshConfig \in SshFiles
    /\ query \in SshQueries
    /\ muxerrc = <<>>
    /\ sessions = {}
    /\ within = FALSE
    /\ window = FALSE
    /\ Fresh

CallSshHosts ==
    /\ pc = "ssh"
    /\ sshHosts' = get_ssh_hosts(query, sshConfig)
    /\ pc' = "ssh_done"
    /\ UNCHANGED <<sessions, within, window, query, muxerrc, sshConfig,
                   localDirs, candidates, chosen, picked, uiCalls, printed,
                   muxer, trace, checks, history, sessions0, runs>>

NextSsh == CallSshHosts

SpecSsh == InitSsh /\ [][NextSsh]_vars

(***************************************************************************)
(* tmux, as the program's subprocess calls see it.                         *)
(***************************************************************************)
TMUX == <<"t", "m", "u", "x">>
LS == <<"l", "s">>
ATTACH == <<"a", "t", "t", "a", "c", "h">>
SWITCH_CLIENT == <<"s", "w", "i", "t", "c", "h", "-", "c", "l", "i", "e", "n", "t">>
NEW_WINDOW == <<"n", "e", "w", "-", "w", "i", "n", "d", "o", "w">>
NEW_SESSION == <<"n", "e", "w", "-", "s", "e", "s", "s", "i", "o", "n">>
DashT == <<"-", "t">>
DashN == <<"-", "n">>
DashS == <<"-", "s">>
DashC == <<"-", "c">>
DashA == <<"-", "A">>
DashD == <<"-", "d">>

\* stdout of `tmux ls`: one line per live session, by name; nothing when
\* there is no session (no server)
TmuxLs(S) ==
    LET names == SortedFromSet(S)
    IN  Flatten([i \in 1..Len(names) |->
            names[i] \o <<":", " ", "1", " ", "w", "i", "n", "d", "o", "w", "s", NL>>])

\* what running argv does to the session table: `new-session -s name`
\* creates the session unless one of that name lives (then -A attaches to
\* it and -d fails with "duplicate session"); nothing else changes the table
TmuxEffect(argv, S) ==
    IF Len(argv) >= 5 /\ argv[2] = NEW_SESSION /\ argv[4] = DashS
    THEN S \cup {argv[5]}
    ELSE S

\* log_and_run's argument vector: falsy tokens dropped, the rest stripped
log_and_run(command) ==
    LET kept == SelectSeq(command, LAMBDA c : c # <<>>)
    IN  [i \in 1..Len(kept) |-> Strip(kept[i])]

\* re.search(f"\b{session}\b", out): in a non-raw literal \b is the
\* backspace character, so the pattern is U+0008, the name, U+0008.
\* (The names here hold no regular-expression metacharacter.)
tmux_has_session(session, out) == Contains(out, <<BS>> \o session \o <<BS>>)

(***************************************************************************)
(* class Muxer.  A method is the list of command lists it passes to        *)
(* log_and_run, in order, and whether it ran tmux_has_session first; `has` *)
(* is what tmux_has_session(self.name) returns at that point.              *)
(***************************************************************************)
Muxer(name, command, dir) ==
    [name    |-> name,
     command |-> command,
     dir     |-> IF dir # <<>> THEN <<DashC, dir>> ELSE <<>>]

attach(self) == <<TMUX, ATTACH, DashT, self.name>>

switch(self) == <<TMUX, SWITCH_CLIENT, DashT, self.name>>

\* new_window without its WITHIN_TMUX branch: a faulty variant, to show that
\* C4_WindowInsideTmux depends on that branch
new_windowAlwaysSession(self, inTmux, has) ==
    [check |-> TRUE,
     cmds  |-> (IF ~has
                THEN << <<TMUX, NEW_SESSION, DashA, DashS, self.name>>
                            \o self.dir \o <<self.command>> >>
                ELSE <<>>)
               \o <<attach(self)>>]

new_window(self, inTmux, has) ==
    IF inTmux
    THEN [check |-> FALSE,
          cmds  |-> << <<TMUX, NEW_WINDOW, DashN, self.name>>
                          \o self.dir \o <<self.command>> >>]
    ELSE [check |-> TRUE,
          cmds  |-> (IF ~has
                     THEN << <<TMUX, NEW_SESSION, DashA, DashS, self.name>>
                                 \o self.dir \o <<self.command>> >>
                     ELSE <<>>)
                    \o <<attach(self)>>]

\* new_session with the creation flags exchanged: a faulty variant, to show
\* that C5_SessionAbsentSequence depends on the flag
new_sessionFlagsSwapped(self, inTmux, has) ==
    [check |-> TRUE,
     cmds  |-> (IF ~has
                THEN << <<TMUX, NEW_SESSION, IF inTmux THEN DashA ELSE DashD,
                          DashS, self.name>>
                            \o self.dir \o <<self.command>> >>
                ELSE <<>>)
               \o <<IF inTmux THEN switch(self) ELSE attach(self)>>]

new_session(self, inTmux, has) ==
    [check |-> TRUE,
     cmds  |-> (IF ~has
                THEN << <<TMUX, NEW_SESSION, IF inTmux THEN DashD ELSE DashA,
                          DashS, self.name>>
                            \o self.dir \o <<self.command>> >>
                ELSE <<>>)
               \o <<IF inTmux THEN switch(self) ELSE attach(self)>>]

\* the subprocess.run events of a list of log_and_run calls started with
\* session table S: each with the table as it was when the call was issued
RECURSIVE RunAll(_, _)
RunAll(cmds, S) ==
    IF cmds = <<>> THEN [events |-> <<>>, table |-> S]
    ELSE LET argv == log_and_run(Head(cmds))
             rest == RunAll(Tail(cmds), TmuxEffect(argv, S))
         IN  [events |-> <<[argv |-> argv, live |-> S]>> \o rest.events,
              table  |-> rest.table]

(***************************************************************************)
(* choose.  `pick` is what iterfzf returns if it is invoked: <<>> (None,   *)
(* the user cancelled) or <<c>> for a listed c.  The result is the return  *)
(* value and the number of iterfzf invocations.                            *)
(***************************************************************************)
\* choose without the one-element case: a faulty variant, to show that
\* C7_Choose depends on it
chooseNoShortcut(listy, prompt, q, pick) ==
    IF listy = <<>> THEN [ret |-> <<>>, ui |-> 0]
    ELSE [ret |-> pick, ui |-> 1]

choose(listy, prompt, q, pick) ==
    IF listy = <<>> THEN [ret |-> <<>>, ui |-> 0]
    ELSE IF Len(listy) = 1 THEN [ret |-> <<listy[1]>>, ui |-> 0]
    ELSE [ret |-> pick, ui |-> 1]

PickerResults(listy) == {<<>>} \cup {<<c>> : c \in Range(listy)}

(***************************************************************************)
(* main                                                                    *)
(***************************************************************************)
\* `not chosen`: None or the empty string
NotChosen(ch) == ch = <<>> \/ ch[1] = <<>>

\* the Muxer main builds for a chosen candidate
TargetOf(c) ==
    IF StartsWith(c, SshMarker)
    THEN LET host == SubSeq(c, 6, Len(c))
         IN  Muxer(<<"S", "S", "H", "_">> \o host,
                   <<" ", "s", "s", "h", " ">> \o host,
                   <<>>)
    ELSE Muxer(PathName(HomeJoin(c)), <<>>, PathStr(HomeJoin(c)))

MainRc ==
    << << <<"~", "/", "a", "b">>, <<"~", "/", "c", "/", "*">> >> >>

MainSsh ==
    << <<"H", "o", "s", "t", " ", "s">>,
       <<" ", " ", "H", "o", "s", "t", "N", "a", "m", "e", " ", "n">> >>

MainQueries == { <<>>, <<"a">>, <<"b">>, <<"s">>, <<"z">> }

SessionPool == { <<"0">>, <<"a", "b">>, <<"b">>, <<"S", "S", "H", "_", "s">> }

Init ==
    /\ pc = "idle"
    /\ sessions \in SUBSET SessionPool
    /\ muxerrc = MainRc
    /\ sshConfig = MainSsh
    /\ query = <<>>
    /\ within = FALSE
    /\ window = FALSE
    /\ Fresh

\* the finished run, as kept in history
RunRecord(tr) ==
    [window |-> window, within |-> within, pre |-> sessions0,
     name |-> IF muxer = <<>> THEN <<>> ELSE muxer[1].name, trace |-> tr]

\* a launcher process starts: its arguments and environment
Start ==
    /\ pc \in {"idle", "done"}
    /\ runs < MaxRuns
    /\ \E q \in MainQueries, w \in BOOLEAN, t \in BOOLEAN :
         /\ t => sessions # {}
         /\ query' = q
         /\ window' = w
         /\ within' = t
    /\ runs' = runs + 1
    /\ sessions0' = sessions
    /\ sshHosts' = <<>>
    /\ localDirs' = NoResult
    /\ candidates' = <<>>
    /\ chosen' = <<>>
    /\ picked' = <<>>
    /\ uiCalls' = 0
    /\ printed' = <<>>
    /\ muxer' = <<>>
    /\ trace' = <<>>
    /\ checks' = <<>>
    /\ pc' = "discover"
    /\ UNCHANGED <<sessions, muxerrc, sshConfig, history>>

\* candidates = get_ssh_hosts(query) + get_local_directories(query)
Discover ==
    /\ pc = "discover"
    /\ sshHosts' = get_ssh_hosts(query, sshConfig)
    /\ localDirs' = get_local_directories(query, muxerrc)
    /\ IF localDirs'.ok
       THEN candidates' = sshHosts' \o localDirs'.val /\ pc' = "choose"
       ELSE candidates' = candidates /\ pc' = "crashed"
    /\ UNCHANGED <<sessions, within, window, query, muxerrc, sshConfig,
                   chosen, picked, uiCalls, printed, muxer, trace, checks,
                   history, sessions0, runs>>

\* chosen = choose(candidates, prompt=prompt, query=f"'{query}")
Choose ==
    /\ pc = "choose"
    /\ \E pick \in PickerResults(candidates) :
         LET r == choose(candidates,
                         IF window THEN "WINDOW > " ELSE "SESSION > ",
                         <<"'">> \o query, pick)
         IN  /\ chosen' = r.ret
             /\ uiCalls' = uiCalls + r.ui
             /\ picked' = IF r.ui > 0 THEN <<pick>> ELSE picked
    /\ pc' = "dispatch"
    /\ UNCHANGED <<sessions, within, window, query, muxerrc, sshConfig,
                   sshHosts, localDirs, candidates, printed, muxer, trace,
                   checks, history, sessions0, runs>>

\* Dispatch that attaches to the last session when nothing is chosen: a
\* faulty variant, to show that C6_NothingChosenNoEffect depends on the
\* early return
DispatchFallbackAttach ==
    /\ pc = "dispatch"
    /\ IF NotChosen(chosen)
       THEN /\ printed' = Append(printed, "Nothing chosen")
            /\ muxer' = muxer
            /\ trace' = Append(trace, [argv |-> log_and_run(<<TMUX, ATTACH>>),
                                       live |-> sessions])
            /\ history' = Append(history, RunRecord(trace'))
            /\ pc' = "done"
       ELSE /\ muxer' = <<TargetOf(chosen[1])>>
            /\ printed' = printed
            /\ trace' = trace
            /\ history' = history
            /\ pc' = IF window THEN "new_window" ELSE "new_session"
    /\ UNCHANGED <<sessions, within, window, query, muxerrc, sshConfig,
                   sshHosts, localDirs, candidates, chosen, picked, uiCalls,
                   checks, sessions0, runs>>

\* main from `if not chosen` to the call of the Muxer method
Dispatch ==
    /\ pc = "dispatch"
    /\ IF NotChosen(chosen)
       THEN /\ printed' = Append(printed, "Nothing chosen")
            /\ muxer' = muxer
            /\ history' = Append(history, RunRecord(trace))
            /\ pc' = "done"
       ELSE /\ muxer' = <<TargetOf(chosen[1])>>
            /\ printed' = printed
            /\ history' = history
            /\ pc' = IF window THEN "new_window" ELSE "new_session"
    /\ UNCHANGED <<sessions, within, window, query, muxerrc, sshConfig,
                   sshHosts, localDirs, candidates, chosen, picked, uiCalls,
                   trace, checks, sessions0, runs>>

\* a Muxer method runs: the existence check if it makes one, then its
\* log_and_run calls against the session table
RunMethod(script) ==
    LET lsEvent == [argv |-> <<TMUX, LS>>, live |-> sessions]
        ran     == RunAll(script.cmds, sessions)
        tr      == trace \o (IF script.check THEN <<lsEvent>> ELSE <<>>)
                         \o ran.events
    IN  /\ trace' = tr
        /\ checks' = IF script.check
                     THEN Append(checks,
                              [session |-> muxer[1].name, live |-> sessions,
                               found |-> tmux_has_session(muxer[1].name,
                                                          TmuxLs(sessions))])
                     ELSE checks
        /\ sessions' = ran.table
        /\ history' = Append(history, RunRecord(tr))
        /\ pc' = "done"
        /\ UNCHANGED <<within, window, query, muxerrc, sshConfig, sshHosts,
                       localDirs, candidates, chosen, picked, uiCalls,
                       printed, muxer, sessions0, runs>>

NewWindow ==
    /\ pc = "new_window"
    /\ RunMethod(new_window(muxer[1], within,
                            tmux_has_session(muxer[1].name, TmuxLs(sessions))))

NewSession ==
    /\ pc = "new_session"
    /\ RunMethod(new_session(muxer[1], within,
                             tmux_has_session(muxer[1].name, TmuxLs(sessions))))

Next == Start \/ Discover \/ Choose \/ Dispatch \/ NewWindow \/ NewSession

Spec == Init /\ [][Next]_vars

(***************************************************************************)
(* The properties.                                                         *)
(***************************************************************************)
IsLs(ev) == ev.argv = <<TMUX, LS>>

IsCreate(ev) == Len(ev.argv) >= 5 /\ ev.argv[2] = NEW_SESSION

Creates(tr) == Cardinality({i \in 1..Len(tr) : IsCreate(tr[i])})

\* the log_and_run calls of a trace, without the existence checks
Issued(tr) ==
    LET runsOnly == SelectSeq(tr, LAMBDA ev : ~IsLs(ev))
    IN  [i \in 1..Len(runsOnly) |-> runsOnly[i].argv]

\* what the spec says of the chosen candidate's target: name, working
\* directory and command, as the tokens that follow the fixed ones
IsSshCandidate(c) == StartsWith(c, SshMarker)

WantedName(c) ==
    IF IsSshCandidate(c) THEN <<"S", "S", "H", "_">> \o SubSeq(c, 6, Len(c))
    ELSE LET segs == SplitOn(c, "/") IN segs[Len(segs)]

WantedTail(c) ==
    IF IsSshCandidate(c)
    THEN << <<"s", "s", "h", " ">> \o SubSeq(c, 6, Len(c)) >>
    ELSE << DashC, <<"/", "h", "/">> \o c >>

Finished == pc = "done"

\* C1: a `tmux new-session -s <name>` call is issued only after an
\* existence check, and only when no live session of that name exists at
\* that moment.
C1_CreateOnlyWhenAbsent ==
    \A i \in 1..Len(trace) :
        IsCreate(trace[i]) =>
            /\ \E j \in 1..(i - 1) : IsLs(trace[j])
            /\ trace[i].argv[5] \notin trace[i].live

\* C2: two runs of new_session in sequence for the same target make at most
\* one new-session call in total; the second, finding the session, makes
\* only its attach or switch-client call.
C2_SessionIdempotent ==
    \A i \in 1..(Len(history) - 1) :
        LET a == history[i]
            b == history[i + 1]
        IN  (~a.window /\ ~b.window /\ a.name # <<>> /\ a.name = b.name) =>
                /\ Creates(a.trace) + Creates(b.trace) <= 1
                /\ Len(Issued(b.trace)) = 1

\* C3: tmux_has_session reports a session exactly when the live session
\* list holds a session of exactly that name.
C3_HasSessionExact ==
    \A i \in 1..Len(checks) :
        checks[i].found <=> (checks[i].session \in checks[i].live)

\* C4: in window mode inside tmux, new_window makes exactly one call,
\* `tmux new-window` with the target's name, working directory and command:
\* no new-session, no attach or switch-client, no existence check.
C4_WindowInsideTmux ==
    (Finished /\ window /\ within /\ ~NotChosen(chosen)) =>
        /\ trace = <<[argv |-> <<TMUX, NEW_WINDOW, DashN, WantedName(chosen[1])>>
                                   \o WantedTail(chosen[1]),
                      live |-> sessions0]>>
        /\ checks = <<>>
        /\ sessions = sessions0

C4_Witness ==
    /\ Finished /\ window /\ within /\ ~NotChosen(chosen)
    /\ muxer[1].name \in sessions0
    /\ Len(trace) = 1

\* C5: in session mode with no session of the target name, new_session
\* issues exactly: new-session (-d inside tmux, -A outside) for the name
\* with its directory and command, then one hand-off, switch-client inside
\* and attach outside.
C5_SessionAbsentSequence ==
    (Finished /\ ~window /\ ~NotChosen(chosen)
        /\ WantedName(chosen[1]) \notin sessions0) =>
        /\ IsLs(trace[1])
        /\ Issued(trace) =
             << <<TMUX, NEW_SESSION, IF within THEN DashD ELSE DashA, DashS,
                  WantedName(chosen[1])>> \o WantedTail(chosen[1]),
                <<TMUX, IF within THEN SWITCH_CLIENT ELSE ATTACH, DashT,
                  WantedName(chosen[1])>> >>

C5_Witness ==
    /\ Finished /\ ~window /\ ~NotChosen(chosen) /\ within
    /\ muxer[1].name \notin sessions0
    /\ muxer[1].name \in sessions
    /\ Len(trace) = 3

\* C6: when nothing is chosen, main prints "Nothing chosen" and returns
\* without any tmux call, and the session table is unchanged.
C6_NothingChosenNoEffect ==
    (pc \in {"done", "new_window", "new_session"} /\ NotChosen(chosen)) =>
        /\ Finished
        /\ printed = <<"Nothing chosen">>
        /\ trace = <<>>
        /\ checks = <<>>
        /\ sessions = sessions0

C6_Witness ==
    /\ Finished /\ NotChosen(chosen)
    /\ uiCalls = 1
    /\ sessions # {}
    /\ printed = <<"Nothing chosen">>

\* C7: choose returns nothing for an empty list and the element of a
\* one-element list, both without the picker; for two or more elements it
\* invokes the picker exactly once and returns what the picker returns.
C7_Choose ==
    (pc \in {"dispatch", "new_window", "new_session", "done"}) =>
        /\ candidates = <<>> => (chosen = <<>> /\ uiCalls = 0)
        /\ Len(candidates) = 1 =>
               (chosen = <<candidates[1]>> /\ uiCalls = 0)
        /\ Len(candidates) >= 2 =>
               (uiCalls = 1 /\ picked # <<>> /\ chosen = picked[1])

C7_Witness ==
    /\ pc = "dispatch"
    /\ Len(candidates) >= 2
    /\ uiCalls = 1
    /\ chosen = <<candidates[2]>>

\* the paths a rule file without wildcard or exclusion lines lists
PlainRules(lines) ==
    \A i \in 1..Len(lines) :
        ~StartsWith(lines[i], <<"!">>) /\ ~EndsWith(lines[i], <<"*">>)

Listed(lines) == [i \in 1..Len(lines) |-> ExpandUser(ParsePath(lines[i]))]

\* C8: for a rule file with no wildcard and no exclusion line (its listed
\* paths in the home tree), get_local_directories returns exactly the
\* listed existing directories whose final segment does not start with "."
\* and contains the query, home-relative and sorted.
C8_PlainRulesExact ==
    (pc = "dirs_done" /\ muxerrc # <<>> /\ PlainRules(muxerrc[1])
        /\ \A i \in 1..Len(muxerrc[1]) : UnderHome(Listed(muxerrc[1])[i])) =>
        LET wanted == SelectSeq(Listed(muxerrc[1]), LAMBDA d :
                          /\ IsDir(d)
                          /\ ~StartsWith(PathName(d), <<".">>)
                          /\ Contains(PathName(d), query))
        IN  /\ localDirs.ok
            /\ localDirs.val = Sorted([i \in 1..Len(wanted) |->
                                          relative(wanted[i])])

ExcludedPaths(lines) ==
    {ExpandUser(ParsePath(Tail(lines[i]))) :
        i \in {j \in 1..Len(lines) : StartsWith(lines[j], <<"!">>)}}

\* C9: a path named by an exclusion line never appears in the result of
\* get_local_directories.
C9_ExclusionWins ==
    (pc = "dirs_done" /\ localDirs.ok) =>
        \A p \in ExcludedPaths(RuleLines(muxerrc)) :
            UnderHome(p) => relative(p) \notin Range(localDirs.val)

C9_Witness ==
    /\ pc = "dirs_done"
    /\ localDirs.ok
    /\ query # <<>>
    /\ \E p \in ExcludedPaths(RuleLines(muxerrc)) :
         /\ p \in Range(Directories(RuleLines(muxerrc)))
         /\ IsDir(p)
         /\ Contains(PathName(p), query)
         /\ ~StartsWith(PathName(p), <<".">>)
         /\ EndsWith(RuleLines(muxerrc)[1], <<"*">>)

\* a host declaration: a line that begins with the keyword Host
IsHostDeclaration(line) ==
    /\ StartsWith(line, HostKw)
    /\ Split(line)[1] = HostKw

WantedAliases(line) ==
    IF IsHostDeclaration(line)
           /\ \A t \in Range(Split(line)) : ~Contains(t, <<"*">>)
    THEN Tail(Split(line))
    ELSE <<>>

\* C10: get_ssh_hosts returns, sorted, exactly "ssh: " + alias for the
\* alias tokens of host-declaration lines without a wildcard token whose
\* alias contains the query; no token of any other line is returned.
C10_SshHostsExact ==
    (pc = "ssh_done") =>
        LET all  == Flatten([i \in 1..Len(sshConfig) |->
                                WantedAliases(sshConfig[i])])
            kept == SelectSeq(all, LAMBDA a : Contains(a, query))
        IN  sshHosts = Sorted([i \in 1..Len(kept) |-> SshMarker \o kept[i]])

====
